---- MODULE Spec2Model ----
(***************************************************************************)
(* Model of dash_CR.py: the Streamlit point-of-sale application.           *)
(*                                                                         *)
(* Persistent state: the master ledger file CR_Control.xlsx (maestro) and  *)
(* the dated sale files (archivos).  Per browser session: st.session_state *)
(* (estado, carrito, producto_seleccionado, talla_seleccionada,            *)
(* mostrar_dashboard), the message the last run displayed (mensaje) and    *)
(* the position of a commit handler that is under way (en_curso).          *)
(* Every button handler of main() is one action; a handler runs to its     *)
(* st.rerun() (or to the end of the script run) without interleaving.      *)
(*                                                                         *)
(* Spec            one operator session runs the application.              *)
(* SpecCompartido  every session has an operator; all share the files.     *)
(* SpecActualizar  the commit handler alone, over any ledger file and cart.*)
(* SpecConcurrente two sessions commit at once; the handler's file         *)
(*                 operations are the steps.                               *)
(***************************************************************************)
EXTENDS Integers, Sequences, FiniteSets, TLC

VARIABLES maestro, archivos, estado, carrito, producto_seleccionado,
          talla_seleccionada, mostrar_dashboard, mensaje, en_curso

vars == <<maestro, archivos, estado, carrito, producto_seleccionado,
          talla_seleccionada, mostrar_dashboard, mensaje, en_curso>>

\* ---------------------------------------------------------------- bounds
MaxCarrito == 2
MaxArchivos == 2
StockMaximo == 2

\* ------------------------------------------------------------- universe
\* Browser sessions of the application; each has its own st.session_state
\* and all share the files.
Sesiones == {"s1", "s2"}

\* The sessions with an operator at the keyboard: one active operator
\* session per ledger.
Operadores == {"s1"}

\* datetime.now().strftime("%Y-%m-%d"): the runs modelled fall on one day.
FechaHoy == "2026-11-03"

None == "None"

\* Rows of the provisioned ledger: (Producto, Talla) keys.
Claves == {<<"Camisa", "S">>, <<"Camisa", "M">>}

SKUDe(k) == IF k[2] = "S" THEN "CAM-S" ELSE "CAM-M"

CostoDe(k) == IF k[2] = "S" THEN 3 ELSE 5

Estados == {"inicio", "seleccionar_producto", "seleccionar_talla",
            "confirmar_articulo", "carrito", "finalizar_compra"}

Mensajes == {"ninguno", "exito", "error_maestro", "error_guardar"}

\* --------------------------------------------------------------- ledger
\* One row of CR_Control.xlsx: provisioned with `inicial` units, of which
\* `vendida` are sold; the derived columns as the workbook keeps them.
FilaMaestro(k, inicial, vendida) ==
    [SKU |-> SKUDe(k), Costo |-> CostoDe(k),
     CantidadInicial |-> inicial, CantidadVendida |-> vendida,
     CantidadSobrante |-> inicial - vendida, Ganancia |-> vendida * CostoDe(k)]

\* The ledger the runs start from: one unit of each size, nothing sold.
MaestroInicial == [k \in Claves |-> FilaMaestro(k, 1, 0)]

\* df_maestro['Producto'].unique()
ProductosDisponibles(df) == {k[1] : k \in DOMAIN df}

\* df_maestro[df_maestro['Producto'] == producto]['Talla'].unique()
TallasDisponibles(df, producto) == {k[2] : k \in {c \in DOMAIN df : c[1] = producto}}

\* Variant of ActualizarFila that leaves 'Cantidad sobrante' as it was.
ActualizarFila_SinSobrante(fila, cantidad) ==
    LET vendida == fila.CantidadVendida + cantidad
    IN  [fila EXCEPT !.CantidadVendida = vendida,
                     !.Ganancia = vendida * fila.Costo]

\* The update of one matching row: lines 268-276.
ActualizarFila(fila, cantidad) ==
    LET vendida == fila.CantidadVendida + cantidad
    IN  [fila EXCEPT !.CantidadVendida = vendida,
                     !.Ganancia = vendida * fila.Costo,
                     !.CantidadSobrante = fila.CantidadInicial - vendida]

\* One iteration of the loop over compras_realizadas: the row is updated
\* when the mask matches, and the line is skipped silently when it does not.
AplicarCompra(df, compra) ==
    LET k == <<compra.Producto, compra.Talla>>
    IN  IF k \in DOMAIN df
        THEN [df EXCEPT ![k] = ActualizarFila(df[k], compra.Cantidad)]
        ELSE df

RECURSIVE ActualizarDF(_, _)
\* The for loop of actualizar_archivo_maestro over the whole cart.
ActualizarDF(df, compras) ==
    IF compras = <<>> THEN df
    ELSE ActualizarDF(AplicarCompra(df, Head(compras)), Tail(compras))

\* ----------------------------------------------------------- sale files
\* A file name: the date, and contador = 0 for "<fecha>.xlsx" or n >= 1 for
\* "<fecha>_<n>.xlsx".
NombreArchivo(fecha, contador) == [fecha |-> fecha, contador |-> contador]

RECURSIVE ProbarContador(_, _, _)
\* The while True loop of generar_nombre_archivo.
ProbarContador(existentes, fecha, contador) ==
    IF NombreArchivo(fecha, contador) \notin existentes
    THEN NombreArchivo(fecha, contador)
    ELSE ProbarContador(existentes, fecha, contador + 1)

\* Variant of GenerarNombreArchivo that returns the date name without probing.
GenerarNombreArchivo_SinProbar(existentes, fecha) == NombreArchivo(fecha, 0)

\* generar_nombre_archivo: the date name when unused, the probe otherwise.
GenerarNombreArchivo(existentes, fecha) ==
    IF NombreArchivo(fecha, 0) \notin existentes
    THEN NombreArchivo(fecha, 0)
    ELSE ProbarContador(existentes, fecha, 1)

\* One row of the sale file: the cart line restricted to columnas_orden,
\* with the Fecha column added.
FilaCompra(articulo, fecha) ==
    [Producto |-> articulo.Producto, SKU |-> articulo.SKU,
     Talla |-> articulo.Talla, CantidadVendida |-> articulo.CantidadVendida,
     Costo |-> articulo.Costo, Ganancia |-> articulo.Ganancia,
     Fecha |-> fecha]

DfCompra(compras, fecha) ==
    [i \in 1..Len(compras) |-> FilaCompra(compras[i], fecha)]

\* guardar_compra_excel when the write succeeds: the store with the new file.
GuardarCompraExcel(archs, compras, fecha) ==
    LET nombre == GenerarNombreArchivo(DOMAIN archs, fecha)
    IN  [n \in DOMAIN archs \cup {nombre} |->
            IF n = nombre THEN DfCompra(compras, fecha) ELSE archs[n]]

\* ----------------------------------------------------------------- cart
\* Variant of NuevoArticulo whose Ganancia is the unit cost.
NuevoArticulo_GananciaUnitaria(k, fila, cantidad) ==
    [Producto |-> k[1], SKU |-> fila.SKU, Talla |-> k[2],
     Cantidad |-> cantidad, CantidadVendida |-> cantidad,
     Costo |-> fila.Costo, Ganancia |-> fila.Costo]

NuevoArticulo(k, fila, cantidad) ==
    [Producto |-> k[1], SKU |-> fila.SKU, Talla |-> k[2],
     Cantidad |-> cantidad, CantidadVendida |-> cantidad,
     Costo |-> fila.Costo, Ganancia |-> cantidad * fila.Costo]

\* carrito.pop(i)
Pop(seq, i) == [j \in 1..(Len(seq) - 1) |-> IF j < i THEN seq[j] ELSE seq[j + 1]]

RECURSIVE Acumular(_, _, _)
\* The loop of the cart screen: total_compra += articulo['Ganancia'] for the
\* lines from index i on.
Acumular(compras, i, total_compra) ==
    IF i > Len(compras) THEN total_compra
    ELSE Acumular(compras, i + 1, total_compra + compras[i].Ganancia)

\* "Total de la Compra" of the cart screen.
TotalCompra(compras) == Acumular(compras, 1, 0)

\* "Total Final" of the checkout screen: sum(articulo['Ganancia'] ...).
TotalFinal(compras) == Acumular(compras, 1, 0)

\* No commit handler of the session is under way.
SinCommit == [fase |-> "ninguna"]

\* ----------------------------------------------------------------- Init
Init ==
    /\ maestro = MaestroInicial
    /\ archivos = <<>>
    /\ estado = [s \in Sesiones |-> "inicio"]
    /\ carrito = [s \in Sesiones |-> <<>>]
    /\ producto_seleccionado = [s \in Sesiones |-> None]
    /\ talla_seleccionada = [s \in Sesiones |-> None]
    /\ mostrar_dashboard = [s \in Sesiones |-> FALSE]
    /\ mensaje = [s \in Sesiones |-> "ninguno"]
    /\ en_curso = [s \in Sesiones |-> SinCommit]

\* ------------------------------------------------------------- handlers
\* A run of the script that shows no commit result.
SinMensaje(s) == mensaje' = [mensaje EXCEPT ![s] = "ninguno"]

\* The sales screens are rendered only when the dashboard is not shown.
EnVentas(s, pantalla) == ~mostrar_dashboard[s] /\ estado[s] = pantalla

IrA(s, pantalla) == estado' = [estado EXCEPT ![s] = pantalla]

\* Variant of SistemaDeVentas that starts over with an empty cart.
SistemaDeVentas_VaciaCarrito(s) ==
    /\ mostrar_dashboard' = [mostrar_dashboard EXCEPT ![s] = FALSE]
    /\ IrA(s, "inicio")
    /\ carrito' = [carrito EXCEPT ![s] = <<>>]
    /\ SinMensaje(s)
    /\ UNCHANGED <<maestro, archivos, producto_seleccionado,
                   talla_seleccionada,
                   en_curso>>

SistemaDeVentas(s) ==
    /\ mostrar_dashboard' = [mostrar_dashboard EXCEPT ![s] = FALSE]
    /\ IrA(s, "inicio")
    /\ SinMensaje(s)
    /\ UNCHANGED <<maestro, archivos, carrito, producto_seleccionado,
                   talla_seleccionada,
                   en_curso>>

DashboardEstadisticas(s) ==
    /\ mostrar_dashboard' = [mostrar_dashboard EXCEPT ![s] = TRUE]
    /\ SinMensaje(s)
    /\ UNCHANGED <<maestro, archivos, estado, carrito,
                   producto_seleccionado, talla_seleccionada,
                   en_curso>>

\* Variant of GenerarNuevaCompra that opens the size screen at once, with no
\* product chosen.
GenerarNuevaCompra_SinProducto(s) ==
    /\ EnVentas(s, "inicio")
    /\ IrA(s, "seleccionar_talla")
    /\ SinMensaje(s)
    /\ UNCHANGED <<maestro, archivos, carrito, producto_seleccionado,
                   talla_seleccionada, mostrar_dashboard,
                   en_curso>>

GenerarNuevaCompra(s) ==
    /\ EnVentas(s, "inicio")
    /\ IrA(s, "seleccionar_producto")
    /\ SinMensaje(s)
    /\ UNCHANGED <<maestro, archivos, carrito, producto_seleccionado,
                   talla_seleccionada, mostrar_dashboard,
                   en_curso>>

SeleccionarProducto(s) ==
    /\ EnVentas(s, "seleccionar_producto")
    /\ \E producto \in ProductosDisponibles(maestro) :
          producto_seleccionado' = [producto_seleccionado EXCEPT ![s] = producto]
    /\ IrA(s, "seleccionar_talla")
    /\ SinMensaje(s)
    /\ UNCHANGED <<maestro, archivos, carrito, talla_seleccionada,
                   mostrar_dashboard,
                   en_curso>>

VerCarrito(s) ==
    /\ EnVentas(s, "seleccionar_producto")
    /\ carrito[s] # <<>>
    /\ IrA(s, "carrito")
    /\ SinMensaje(s)
    /\ UNCHANGED <<maestro, archivos, carrito, producto_seleccionado,
                   talla_seleccionada, mostrar_dashboard,
                   en_curso>>

SeleccionarTalla(s) ==
    /\ EnVentas(s, "seleccionar_talla")
    /\ \E talla \in TallasDisponibles(maestro, producto_seleccionado[s]) :
          LET stock_talla ==
                  maestro[<<producto_seleccionado[s], talla>>].CantidadSobrante
              button_disabled == stock_talla = 0
          IN  /\ ~button_disabled
              /\ talla_seleccionada' = [talla_seleccionada EXCEPT ![s] = talla]
    /\ IrA(s, "confirmar_articulo")
    /\ SinMensaje(s)
    /\ UNCHANGED <<maestro, archivos, carrito, producto_seleccionado,
                   mostrar_dashboard,
                   en_curso>>

\* Rendered after st.columns(len(tallas_ordenadas)), which raises when the
\* selected product has no row.
RegresarAProductos(s) ==
    /\ EnVentas(s, "seleccionar_talla")
    /\ TallasDisponibles(maestro, producto_seleccionado[s]) # {}
    /\ IrA(s, "seleccionar_producto")
    /\ SinMensaje(s)
    /\ UNCHANGED <<maestro, archivos, carrito, producto_seleccionado,
                   talla_seleccionada, mostrar_dashboard,
                   en_curso>>

\* The key shown by the confirmar_articulo screen.
ClaveSeleccionada(s) == <<producto_seleccionado[s], talla_seleccionada[s]>>

\* The .iloc[0] lookup of articulo_info finds a row; it raises otherwise and
\* the script run ends before any button of the screen is drawn.
ArticuloEncontrado(s) == ClaveSeleccionada(s) \in DOMAIN maestro

\* int(articulo_info['Cantidad sobrante'])
CantidadMaxima(s) == maestro[ClaveSeleccionada(s)].CantidadSobrante

\* Variant of AgregarArticulo whose number_input has no max_value.
AgregarArticulo_SinMaximo(s) ==
    /\ EnVentas(s, "confirmar_articulo")
    /\ ArticuloEncontrado(s)
    /\ CantidadMaxima(s) > 0
    /\ Len(carrito[s]) < MaxCarrito
    /\ \E cantidad \in 1..(CantidadMaxima(s) + 1) :
          carrito' = [carrito EXCEPT ![s] =
              Append(@, NuevoArticulo(ClaveSeleccionada(s),
                                      maestro[ClaveSeleccionada(s)], cantidad))]
    /\ IrA(s, "carrito")
    /\ SinMensaje(s)
    /\ UNCHANGED <<maestro, archivos, producto_seleccionado,
                   talla_seleccionada, mostrar_dashboard,
                   en_curso>>

AgregarArticulo(s) ==
    /\ EnVentas(s, "confirmar_articulo")
    /\ ArticuloEncontrado(s)
    /\ CantidadMaxima(s) > 0
    /\ Len(carrito[s]) < MaxCarrito
    /\ \E cantidad \in 1..CantidadMaxima(s) :
          carrito' = [carrito EXCEPT ![s] =
              Append(@, NuevoArticulo(ClaveSeleccionada(s),
                                      maestro[ClaveSeleccionada(s)], cantidad))]
    /\ IrA(s, "carrito")
    /\ SinMensaje(s)
    /\ UNCHANGED <<maestro, archivos, producto_seleccionado,
                   talla_seleccionada, mostrar_dashboard,
                   en_curso>>

CambiarSeleccion(s) ==
    /\ EnVentas(s, "confirmar_articulo")
    /\ ArticuloEncontrado(s)
    /\ CantidadMaxima(s) > 0
    /\ IrA(s, "seleccionar_producto")
    /\ SinMensaje(s)
    /\ UNCHANGED <<maestro, archivos, carrito, producto_seleccionado,
                   talla_seleccionada, mostrar_dashboard,
                   en_curso>>

SeleccionarOtroProducto(s) ==
    /\ EnVentas(s, "confirmar_articulo")
    /\ ArticuloEncontrado(s)
    /\ ~(CantidadMaxima(s) > 0)
    /\ IrA(s, "seleccionar_producto")
    /\ SinMensaje(s)
    /\ UNCHANGED <<maestro, archivos, carrito, producto_seleccionado,
                   talla_seleccionada, mostrar_dashboard,
                   en_curso>>

EliminarArticulo(s) ==
    /\ EnVentas(s, "carrito")
    /\ carrito[s] # <<>>
    /\ \E i \in 1..Len(carrito[s]) :
          carrito' = [carrito EXCEPT ![s] = Pop(@, i)]
    /\ SinMensaje(s)
    /\ UNCHANGED <<maestro, archivos, estado, producto_seleccionado,
                   talla_seleccionada, mostrar_dashboard,
                   en_curso>>

AgregarMasArticulos(s) ==
    /\ EnVentas(s, "carrito")
    /\ carrito[s] # <<>>
    /\ IrA(s, "seleccionar_producto")
    /\ SinMensaje(s)
    /\ UNCHANGED <<maestro, archivos, carrito, producto_seleccionado,
                   talla_seleccionada, mostrar_dashboard,
                   en_curso>>

\* Variant of FinalizarCompra whose button is drawn for an empty cart too.
FinalizarCompra_SinCarrito(s) ==
    /\ EnVentas(s, "carrito")
    /\ IrA(s, "finalizar_compra")
    /\ SinMensaje(s)
    /\ UNCHANGED <<maestro, archivos, carrito, producto_seleccionado,
                   talla_seleccionada, mostrar_dashboard,
                   en_curso>>

FinalizarCompra(s) ==
    /\ EnVentas(s, "carrito")
    /\ carrito[s] # <<>>
    /\ IrA(s, "finalizar_compra")
    /\ SinMensaje(s)
    /\ UNCHANGED <<maestro, archivos, carrito, producto_seleccionado,
                   talla_seleccionada, mostrar_dashboard,
                   en_curso>>

\* Variant of VaciarCarrito that also deletes the sale files of the day.
VaciarCarrito_BorraArchivos(s) ==
    /\ EnVentas(s, "carrito")
    /\ carrito[s] # <<>>
    /\ carrito' = [carrito EXCEPT ![s] = <<>>]
    /\ archivos' = <<>>
    /\ SinMensaje(s)
    /\ UNCHANGED <<maestro, estado, producto_seleccionado,
                   talla_seleccionada, mostrar_dashboard,
                   en_curso>>

VaciarCarrito(s) ==
    /\ EnVentas(s, "carrito")
    /\ carrito[s] # <<>>
    /\ carrito' = [carrito EXCEPT ![s] = <<>>]
    /\ SinMensaje(s)
    /\ UNCHANGED <<maestro, archivos, estado, producto_seleccionado,
                   talla_seleccionada, mostrar_dashboard,
                   en_curso>>

AgregarArticulos(s) ==
    /\ EnVentas(s, "carrito")
    /\ carrito[s] = <<>>
    /\ IrA(s, "seleccionar_producto")
    /\ SinMensaje(s)
    /\ UNCHANGED <<maestro, archivos, carrito, producto_seleccionado,
                   talla_seleccionada, mostrar_dashboard,
                   en_curso>>

RegresarAlCarrito(s) ==
    /\ EnVentas(s, "finalizar_compra")
    /\ carrito[s] # <<>>
    /\ IrA(s, "carrito")
    /\ SinMensaje(s)
    /\ UNCHANGED <<maestro, archivos, carrito, producto_seleccionado,
                   talla_seleccionada, mostrar_dashboard,
                   en_curso>>

\* Variant of ConfirmarFallaGuardar that goes on to update the ledger although
\* no sale file was written.
ConfirmarFallaGuardar_ActualizaMaestro(s) ==
    /\ maestro' = ActualizarDF(maestro, carrito[s])
    /\ mensaje' = [mensaje EXCEPT ![s] = "error_guardar"]
    /\ UNCHANGED <<archivos, estado, carrito, producto_seleccionado,
                   talla_seleccionada, mostrar_dashboard,
                   en_curso>>

\* "Confirmar y Guardar Compra": guardar_compra_excel raised, so it returned
\* None and actualizar_archivo_maestro is not called.
ConfirmarFallaGuardar(s) ==
    /\ mensaje' = [mensaje EXCEPT ![s] = "error_guardar"]
    /\ UNCHANGED <<maestro, archivos, estado, carrito,
                   producto_seleccionado, talla_seleccionada, mostrar_dashboard,
                   en_curso>>

\* Variant of ConfirmarFallaMaestro that ignores the False result: it reports
\* success and clears the cart.
ConfirmarFallaMaestro_ReportaExito(s) ==
    /\ archivos' = GuardarCompraExcel(archivos, carrito[s], FechaHoy)
    /\ carrito' = [carrito EXCEPT ![s] = <<>>]
    /\ IrA(s, "inicio")
    /\ mensaje' = [mensaje EXCEPT ![s] = "exito"]
    /\ UNCHANGED <<maestro, producto_seleccionado, talla_seleccionada,
                   mostrar_dashboard,
                   en_curso>>

\* The sale file was written and actualizar_archivo_maestro raised (reading
\* or writing CR_Control.xlsx), so it returned False.
ConfirmarFallaMaestro(s) ==
    /\ archivos' = GuardarCompraExcel(archivos, carrito[s], FechaHoy)
    /\ mensaje' = [mensaje EXCEPT ![s] = "error_maestro"]
    /\ UNCHANGED <<maestro, estado, carrito, producto_seleccionado,
                   talla_seleccionada, mostrar_dashboard,
                   en_curso>>

\* Both writes went through.
ConfirmarExito(s) ==
    /\ archivos' = GuardarCompraExcel(archivos, carrito[s], FechaHoy)
    /\ maestro' = ActualizarDF(maestro, carrito[s])
    /\ carrito' = [carrito EXCEPT ![s] = <<>>]
    /\ IrA(s, "inicio")
    /\ mensaje' = [mensaje EXCEPT ![s] = "exito"]
    /\ UNCHANGED <<producto_seleccionado, talla_seleccionada,
                   mostrar_dashboard,
                   en_curso>>

ConfirmarYGuardarCompra(s) ==
    /\ EnVentas(s, "finalizar_compra")
    /\ carrito[s] # <<>>
    /\ Cardinality(DOMAIN archivos) < MaxArchivos
    /\ \/ ConfirmarExito(s)
       \/ ConfirmarFallaMaestro(s)
       \/ ConfirmarFallaGuardar(s)

\* One script run of session s: the handler of the button pressed.
Paso(s) ==
    \/ SistemaDeVentas(s)
    \/ DashboardEstadisticas(s)
    \/ GenerarNuevaCompra(s)
    \/ SeleccionarProducto(s)
    \/ VerCarrito(s)
    \/ SeleccionarTalla(s)
    \/ RegresarAProductos(s)
    \/ AgregarArticulo(s)
    \/ CambiarSeleccion(s)
    \/ SeleccionarOtroProducto(s)
    \/ EliminarArticulo(s)
    \/ AgregarMasArticulos(s)
    \/ FinalizarCompra(s)
    \/ VaciarCarrito(s)
    \/ AgregarArticulos(s)
    \/ RegresarAlCarrito(s)
    \/ ConfirmarYGuardarCompra(s)

\* One operator session uses the application.
Next == \E s \in Operadores : Paso(s)

Spec == Init /\ [][Next]_vars

\* Every browser session has an operator: the sessions share CR_Control.xlsx
\* and the sale files, and their script runs alternate.
NextCompartido == \E s \in Sesiones : Paso(s)

SpecCompartido == Init /\ [][NextCompartido]_vars

\* ------------------------------------------- the ledger update on its own
\* Ledger files the update can find on disk: any non-empty subset of the rows
\* (the workbook is maintained outside the application), each row with any
\* stock and any number of units sold so far.
MaestrosPosibles ==
    UNION {{[k \in D |-> FilaMaestro(k, f[k][1], f[k][2])] :
               f \in [D -> {p \in (1..StockMaximo) \X (0..StockMaximo) :
                               p[2] <= p[1]}]} :
           D \in (SUBSET Claves) \ {{}}}

\* Cart lines as the confirmar_articulo screen builds them.
ArticulosPosibles ==
    {NuevoArticulo(k, FilaMaestro(k, StockMaximo, 0), q) :
        k \in Claves, q \in 1..StockMaximo}

CarritosPosibles ==
    UNION {[1..n -> ArticulosPosibles] : n \in 1..MaxCarrito}

\* The checkout screen with some cart, over some ledger file.
InitActualizar ==
    /\ maestro \in MaestrosPosibles
    /\ archivos = <<>>
    /\ \E c \in CarritosPosibles :
          carrito = [s \in Sesiones |-> IF s \in Operadores THEN c ELSE <<>>]
    /\ estado = [s \in Sesiones |->
                    IF s \in Operadores THEN "finalizar_compra" ELSE "inicio"]
    /\ producto_seleccionado = [s \in Sesiones |-> None]
    /\ talla_seleccionada = [s \in Sesiones |-> None]
    /\ mostrar_dashboard = [s \in Sesiones |-> FALSE]
    /\ mensaje = [s \in Sesiones |-> "ninguno"]
    /\ en_curso = [s \in Sesiones |-> SinCommit]

NextActualizar == \E s \in Operadores : ConfirmarYGuardarCompra(s)

SpecActualizar == InitActualizar /\ [][NextActualizar]_vars

\* ------------------------------------------------ building a cart
\* Ledger files a session can find when it starts a purchase: any non-empty
\* subset of the rows, each with any stock and any number of units sold,
\* a row sold once over its stock included.
MaestrosVenta ==
    UNION {{[k \in D |-> FilaMaestro(k, f[k][1], f[k][2])] :
               f \in [D -> {p \in (1..StockMaximo) \X (0..(StockMaximo + 1)) :
                               p[2] <= p[1] + 1}]} :
           D \in (SUBSET Claves) \ {{}}}

InitVenta ==
    /\ maestro \in MaestrosVenta
    /\ archivos = <<>>
    /\ estado = [s \in Sesiones |-> "inicio"]
    /\ carrito = [s \in Sesiones |-> <<>>]
    /\ producto_seleccionado = [s \in Sesiones |-> None]
    /\ talla_seleccionada = [s \in Sesiones |-> None]
    /\ mostrar_dashboard = [s \in Sesiones |-> FALSE]
    /\ mensaje = [s \in Sesiones |-> "ninguno"]
    /\ en_curso = [s \in Sesiones |-> SinCommit]

\* One script run of session s before the purchase is confirmed.
PasoVenta(s) ==
    \/ SistemaDeVentas(s)
    \/ DashboardEstadisticas(s)
    \/ GenerarNuevaCompra(s)
    \/ SeleccionarProducto(s)
    \/ VerCarrito(s)
    \/ SeleccionarTalla(s)
    \/ RegresarAProductos(s)
    \/ AgregarArticulo(s)
    \/ CambiarSeleccion(s)
    \/ SeleccionarOtroProducto(s)
    \/ EliminarArticulo(s)
    \/ AgregarMasArticulos(s)
    \/ FinalizarCompra(s)
    \/ VaciarCarrito(s)
    \/ AgregarArticulos(s)
    \/ RegresarAlCarrito(s)

NextVenta == \E s \in Operadores : PasoVenta(s)

SpecVenta == InitVenta /\ [][NextVenta]_vars

\* ------------------------------------------- a ledger edited by hand
\* CR_Control.xlsx is a workbook kept outside the application: its
\* 'Cantidad sobrante' cells hold whatever was typed or last written there.
MaestrosEditados ==
    {[k \in Claves |-> [FilaMaestro(k, f[k][1], f[k][2])
                            EXCEPT !.CantidadSobrante = f[k][3]]] :
        f \in [Claves -> {p \in (1..StockMaximo) \X (0..StockMaximo)
                                  \X ((-1)..StockMaximo) : p[2] <= p[1]}]}

InitEditado ==
    /\ maestro \in MaestrosEditados
    /\ archivos = <<>>
    /\ estado = [s \in Sesiones |-> "inicio"]
    /\ carrito = [s \in Sesiones |-> <<>>]
    /\ producto_seleccionado = [s \in Sesiones |-> None]
    /\ talla_seleccionada = [s \in Sesiones |-> None]
    /\ mostrar_dashboard = [s \in Sesiones |-> FALSE]
    /\ mensaje = [s \in Sesiones |-> "ninguno"]
    /\ en_curso = [s \in Sesiones |-> SinCommit]

SpecEditado == InitEditado /\ [][NextVenta]_vars

\* =================================================================
\* Properties
\* =================================================================
TypeOK ==
    /\ estado \in [Sesiones -> Estados]
    /\ mensaje \in [Sesiones -> Mensajes]
    /\ mostrar_dashboard \in [Sesiones -> BOOLEAN]
    /\ \A s \in Sesiones : Len(carrito[s]) <= MaxCarrito
    /\ Cardinality(DOMAIN archivos) <= MaxArchivos

\* The (Producto, Talla) key of a cart line or of a sale row.
ClaveDe(linea) == <<linea.Producto, linea.Talla>>

ClavesDe(compras) == {ClaveDe(compras[i]) : i \in 1..Len(compras)}

RECURSIVE Demanda(_, _)
\* Units the cart asks of key k: the sum over its lines for k.
Demanda(compras, k) ==
    IF compras = <<>> THEN 0
    ELSE (IF ClaveDe(Head(compras)) = k THEN Head(compras).Cantidad ELSE 0)
         + Demanda(Tail(compras), k)

\* Stock of key k as the ledger file holds it; none when there is no row.
Sobrante(df, k) == IF k \in DOMAIN df THEN df[k].CantidadSobrante ELSE 0

\* The cart asks of some key more than the ledger has left.
ExcedeStock(df, compras) ==
    \E k \in ClavesDe(compras) : Demanda(compras, k) > Sobrante(df, k)

\* No two lines of the cart have the same key.
UnaLineaPorClave(compras) ==
    \A i, j \in 1..Len(compras) :
        ClaveDe(compras[i]) = ClaveDe(compras[j]) => i = j

\* Two lines of one key, each within stock, together above it.
DosLineasExceden(df, compras) ==
    \E i, j \in 1..Len(compras) :
        /\ i < j
        /\ ClaveDe(compras[i]) = ClaveDe(compras[j])
        /\ compras[i].Cantidad <= Sobrante(df, ClaveDe(compras[i]))
        /\ compras[j].Cantidad <= Sobrante(df, ClaveDe(compras[i]))
        /\ compras[i].Cantidad + compras[j].Cantidad > Sobrante(df, ClaveDe(compras[i]))

\* Session s is on the checkout screen with a cart to commit.
EnCheckout(s) == EnVentas(s, "finalizar_compra") /\ carrito[s] # <<>>

\* The step reports a successful commit to session s.
CompraExitosa(s) == mensaje[s] # "exito" /\ mensaje'[s] = "exito"

\* The files the step adds to the sale-record store.
ArchivosNuevos == DOMAIN archivos' \ DOMAIN archivos

\* ------------------------------------------------- two commits at once
\* The ledger both sessions built their carts from: every size fully stocked.
MaestroLleno == [k \in Claves |-> FilaMaestro(k, StockMaximo, 0)]

\* Both sessions are on the checkout screen, with carts that together ask of
\* no key more than the ledger has.
InitConcurrente ==
    /\ maestro = MaestroLleno
    /\ archivos = <<>>
    /\ carrito \in {c \in [Sesiones -> CarritosPosibles] :
                      \A k \in Claves : \A s, t \in Sesiones :
                          s # t => Demanda(c[s], k) + Demanda(c[t], k)
                                       <= Sobrante(MaestroLleno, k)}
    /\ estado = [s \in Sesiones |-> "finalizar_compra"]
    /\ producto_seleccionado = [s \in Sesiones |-> None]
    /\ talla_seleccionada = [s \in Sesiones |-> None]
    /\ mostrar_dashboard = [s \in Sesiones |-> FALSE]
    /\ mensaje = [s \in Sesiones |-> "ninguno"]
    /\ en_curso = [s \in Sesiones |-> SinCommit]

\* "Confirmar y Guardar Compra" is pressed: guardar_compra_excel writes the
\* sale file, or raises and the handler ends with its error.
EscribirVenta(s) ==
    /\ EnCheckout(s)
    /\ en_curso[s] = SinCommit
    /\ Cardinality(DOMAIN archivos) < MaxArchivos
    /\ \/ /\ archivos' = GuardarCompraExcel(archivos, carrito[s], FechaHoy)
          /\ en_curso' = [en_curso EXCEPT ![s] = [fase |-> "guardado"]]
          /\ SinMensaje(s)
       \/ /\ mensaje' = [mensaje EXCEPT ![s] = "error_guardar"]
          /\ UNCHANGED <<archivos, en_curso>>
    /\ UNCHANGED <<maestro, estado, carrito, producto_seleccionado,
                   talla_seleccionada, mostrar_dashboard>>

\* actualizar_archivo_maestro reads CR_Control.xlsx into df_maestro, or the
\* read raises and the handler ends with its error.
LeerMaestro(s) ==
    /\ en_curso[s] = [fase |-> "guardado"]
    /\ \/ /\ en_curso' = [en_curso EXCEPT ![s] = [fase |-> "leido", df |-> maestro]]
          /\ UNCHANGED mensaje
       \/ /\ en_curso' = [en_curso EXCEPT ![s] = SinCommit]
          /\ mensaje' = [mensaje EXCEPT ![s] = "error_maestro"]
    /\ UNCHANGED <<maestro, archivos, estado, carrito, producto_seleccionado,
                   talla_seleccionada, mostrar_dashboard>>

\* The loop updates the df_maestro that was read and to_excel replaces the
\* file with it; the handler then clears the cart.  Or to_excel raises.
EscribirMaestro(s) ==
    /\ en_curso[s].fase = "leido"
    /\ en_curso' = [en_curso EXCEPT ![s] = SinCommit]
    /\ \/ /\ maestro' = ActualizarDF(en_curso[s].df, carrito[s])
          /\ carrito' = [carrito EXCEPT ![s] = <<>>]
          /\ IrA(s, "inicio")
          /\ mensaje' = [mensaje EXCEPT ![s] = "exito"]
       \/ /\ mensaje' = [mensaje EXCEPT ![s] = "error_maestro"]
          /\ UNCHANGED <<maestro, estado, carrito>>
    /\ UNCHANGED <<archivos, producto_seleccionado, talla_seleccionada,
                   mostrar_dashboard>>

NextConcurrente ==
    \E s \in Sesiones :
        \/ EscribirVenta(s)
        \/ LeerMaestro(s)
        \/ EscribirMaestro(s)

SpecConcurrente == InitConcurrente /\ [][NextConcurrente]_vars

RECURSIVE Vendido(_, _)
\* Units of key k in the rows of one sale file.
Vendido(filas, k) ==
    IF filas = <<>> THEN 0
    ELSE (IF ClaveDe(Head(filas)) = k THEN Head(filas).CantidadVendida ELSE 0)
         + Vendido(Tail(filas), k)

RECURSIVE VendidoEn(_, _, _)
\* Units of key k in the sale files named by `nombres`.
VendidoEn(archs, nombres, k) ==
    IF nombres = {} THEN 0
    ELSE LET n == CHOOSE x \in nombres : TRUE
         IN  Vendido(archs[n], k) + VendidoEn(archs, nombres \ {n}, k)

\* ---- C11 (code_bug) -----------------------------------------------------
\* C11: when both sessions' commits have succeeded, CantidadVendida of every
\* key is its initial value (0) plus the units of both commits, as the two
\* sale files record them, and does not exceed CantidadInicial.
C11_NoLostUpdate ==
    ((\A s \in Sesiones : mensaje[s] = "exito") /\ Cardinality(DOMAIN archivos) = 2)
    => \A k \in DOMAIN maestro :
          /\ maestro[k].CantidadVendida = VendidoEn(archivos, DOMAIN archivos, k)
          /\ maestro[k].CantidadVendida <= maestro[k].CantidadInicial

\* ---- C1 (code_bug) ------------------------------------------------------
\* C1: in every state every ledger row has CantidadSobrante = CantidadInicial
\* - CantidadVendida, CantidadSobrante >= 0 and Ganancia = CantidadVendida *
\* Costo.  The code breaks it: a cart with two lines of one key oversells.
C1_LedgerInvariant ==
    \A k \in DOMAIN maestro :
        /\ maestro[k].CantidadSobrante =
               maestro[k].CantidadInicial - maestro[k].CantidadVendida
        /\ maestro[k].CantidadSobrante >= 0
        /\ maestro[k].Ganancia = maestro[k].CantidadVendida * maestro[k].Costo

\* ---- C2 (code_bug) ------------------------------------------------------
\* C2: a commit of a cart that asks, for some key, more than the ledger's
\* CantidadSobrante at commit time is rejected: no success is reported, no
\* sale file is written and the ledger is unchanged.  Stated for carts with
\* one line per key, where the excess comes from a ledger that changed after
\* the line was added (carts with repeated keys are C3).
C2_CommitRevalidates ==
    [][\A s \in Sesiones :
          (EnCheckout(s) /\ UnaLineaPorClave(carrito[s])
                         /\ ExcedeStock(maestro, carrito[s]))
          => (mensaje'[s] # "exito" /\ archivos' = archivos /\ maestro' = maestro)]_vars

\* ---- C3 (code_bug) ------------------------------------------------------
\* C3: a cart with two lines of one key, each within stock and their sum
\* above it, is rejected as a whole at commit (files, ledger and cart stay
\* as they are), and no row ever has CantidadVendida above CantidadInicial.
C3_SummedValidation ==
    [][/\ \A s \in Sesiones :
             (EnCheckout(s) /\ DosLineasExceden(maestro, carrito[s]))
             => (archivos' = archivos /\ maestro' = maestro /\ carrito'[s] = carrito[s])
       /\ \A k \in DOMAIN maestro' :
             maestro'[k].CantidadVendida <= maestro'[k].CantidadInicial]_vars

\* ---- C4 (confirmed) -----------------------------------------------------
\* C4: a successful commit raises CantidadVendida of every key by the sum of
\* the cart's quantities for that key and lowers CantidadSobrante by the same
\* amount, adds exactly one sale file with one row per cart line, in order,
\* whose 'Cantidad Vendida' is the line's quantity, and empties the cart.
C4_CommitEffect ==
    [][\A s \in Sesiones :
          CompraExitosa(s) =>
             /\ DOMAIN maestro' = DOMAIN maestro
             /\ \A k \in DOMAIN maestro :
                   /\ maestro'[k].CantidadVendida =
                          maestro[k].CantidadVendida + Demanda(carrito[s], k)
                   /\ maestro'[k].CantidadSobrante =
                          maestro[k].CantidadSobrante - Demanda(carrito[s], k)
             /\ Cardinality(ArchivosNuevos) = 1
             /\ DOMAIN archivos \subseteq DOMAIN archivos'
             /\ \A n \in ArchivosNuevos :
                   /\ Len(archivos'[n]) = Len(carrito[s])
                   /\ \A i \in 1..Len(carrito[s]) :
                         /\ ClaveDe(archivos'[n][i]) = ClaveDe(carrito[s][i])
                         /\ archivos'[n][i].CantidadVendida = carrito[s][i].Cantidad
             /\ carrito'[s] = <<>>]_vars

\* A commit of a two-line cart over two sizes has just succeeded.
C4_Witness ==
    \E s \in Sesiones :
        /\ mensaje[s] = "exito"
        /\ carrito[s] = <<>>
        /\ \E n \in DOMAIN archivos :
              /\ Len(archivos[n]) = 2
              /\ ClaveDe(archivos[n][1]) # ClaveDe(archivos[n][2])
        /\ \A k \in DOMAIN maestro : maestro[k].CantidadVendida = 1

\* ---- C5 (code_bug) ------------------------------------------------------
\* C5: a cart that ends up committed has produced exactly one sale file: when
\* the ledger update failed after the sale file was written and the operator
\* presses commit again, the commit that succeeds writes no second file.
C5_OneBatchPerCart ==
    [][\A s \in Sesiones :
          (mensaje[s] = "error_maestro" /\ mensaje'[s] = "exito")
          => archivos' = archivos]_vars

\* ---- C6 (code_bug) ------------------------------------------------------
\* C6: applying the ledger deltas of the cart being committed twice gives
\* the ledger that applying them once gives.
C6_Idempotent ==
    \A s \in Sesiones :
        EnCheckout(s) =>
            ActualizarDF(ActualizarDF(maestro, carrito[s]), carrito[s])
                = ActualizarDF(maestro, carrito[s])

\* ---- C7 (confirmed) -----------------------------------------------------
\* C7: a step that changes the ledger has written a new sale file, and a
\* commit whose sale-file write fails changes neither the ledger nor the
\* sale files nor the cart and leaves the session on the checkout screen with
\* its cart, where the commit can be pressed again.
C7_SaleWriteFirst ==
    [][/\ maestro' # maestro => ArchivosNuevos # {}
       /\ \A s \in Sesiones :
             mensaje'[s] = "error_guardar" =>
                /\ maestro' = maestro
                /\ archivos' = archivos
                /\ carrito' = carrito
                /\ EnCheckout(s)'
                /\ EnCheckout(s)]_vars

\* A commit has just failed on the sale-file write.
C7_Witness ==
    \E s \in Sesiones : mensaje[s] = "error_guardar" /\ EnCheckout(s)

\* ---- C8 (confirmed) -----------------------------------------------------
\* C8: on the checkout screen the outcome "error_maestro" is shown exactly by
\* the steps that wrote a sale file and left the ledger as it was; it is
\* neither the success outcome nor the outcome of a commit that wrote
\* nothing, and it keeps the cart and the screen.
C8_PartialCommitDistinct ==
    [][\A s \in Sesiones :
          EnCheckout(s) =>
             /\ (ArchivosNuevos # {} /\ maestro' = maestro)
                    <=> mensaje'[s] = "error_maestro"
             /\ mensaje'[s] = "error_maestro" =>
                   /\ carrito'[s] = carrito[s]
                   /\ EnCheckout(s)'
             /\ mensaje'[s] = "exito" => maestro' # maestro
             /\ mensaje'[s] = "error_guardar" => ArchivosNuevos = {}]_vars

\* A sale file exists for a cart whose ledger update failed.
C8_Witness ==
    \E s \in Sesiones :
        /\ mensaje[s] = "error_maestro"
        /\ EnCheckout(s)
        /\ \E n \in DOMAIN archivos : archivos[n] = DfCompra(carrito[s], FechaHoy)
        /\ \A k \in DOMAIN maestro : maestro[k].CantidadVendida = 0

\* ---- C9 (confirmed) -----------------------------------------------------
\* C9: a step that changes the sale files adds exactly one file under a name
\* that did not exist, keeps every existing file as it was, and the new name
\* is today's date with the least counter (0 for the bare date name) not
\* already used.
C9_FreshName ==
    [][archivos' # archivos =>
          /\ Cardinality(ArchivosNuevos) = 1
          /\ \A m \in DOMAIN archivos :
                m \in DOMAIN archivos' /\ archivos'[m] = archivos[m]
          /\ \A n \in ArchivosNuevos :
                /\ n.fecha = FechaHoy
                /\ \A j \in 0..(n.contador - 1) :
                      NombreArchivo(FechaHoy, j) \in DOMAIN archivos]_vars

\* Two commits of the same day left two files, the second with suffix 1.
C9_Witness ==
    /\ DOMAIN archivos = {NombreArchivo(FechaHoy, 0), NombreArchivo(FechaHoy, 1)}
    /\ archivos[NombreArchivo(FechaHoy, 0)] # archivos[NombreArchivo(FechaHoy, 1)]

\* ---- C10 (code_bug) -----------------------------------------------------
\* C10: a commit whose cart has a line for a key with no row in the ledger
\* does not report success and leaves the ledger unchanged.
C10_ConflictOnAbsentKey ==
    [][\A s \in Sesiones :
          (EnCheckout(s) /\ \E k \in ClavesDe(carrito[s]) : k \notin DOMAIN maestro)
          => (mensaje'[s] # "exito" /\ maestro' = maestro)]_vars

\* The step is a run of the "Confirmar y Guardar Compra" handler of session s:
\* only that handler leaves a message.
CommitEjecutado(s) == mensaje'[s] # "ninguno"

\* ---- C12 (confirmed) ----------------------------------------------------
\* C12: a session whose screen is finalizar_compra has a non-empty cart, and
\* every run of the commit handler starts from a non-empty cart.
C12_CheckoutNonEmpty ==
    /\ [](\A s \in Sesiones : estado[s] = "finalizar_compra" => carrito[s] # <<>>)
    /\ [][\A s \in Sesiones : CommitEjecutado(s) => carrito[s] # <<>>]_vars

\* A commit has run on the checkout screen and failed: the session is still
\* there, with its cart.
C12_Witness ==
    \E s \in Sesiones :
        /\ EnCheckout(s)
        /\ mensaje[s] \in {"error_maestro", "error_guardar"}

\* ---- C13 (confirmed) ----------------------------------------------------
\* C13: every step that makes a cart one line longer appends a line whose
\* key is in the ledger and whose Cantidad q satisfies
\* 1 <= q <= CantidadSobrante of that key in the ledger of that step; no
\* step appends a line with a larger quantity.
C13_AddWithinStock ==
    [][\A s \in Sesiones :
          Len(carrito'[s]) = Len(carrito[s]) + 1 =>
              LET linea == carrito'[s][Len(carrito'[s])]
              IN  /\ ClaveDe(linea) \in DOMAIN maestro
                  /\ 1 <= linea.Cantidad
                  /\ linea.Cantidad <= maestro[ClaveDe(linea)].CantidadSobrante
                  /\ SubSeq(carrito'[s], 1, Len(carrito[s])) = carrito[s]]_vars

\* A line of two units is in the cart, over a ledger row with two units left.
C13_Witness ==
    \E s \in Sesiones : \E i \in 1..Len(carrito[s]) :
        /\ carrito[s][i].Cantidad = 2
        /\ Sobrante(maestro, ClaveDe(carrito[s][i])) = 2

\* ---- C14 (code_bug) -----------------------------------------------------
\* C14: a step that brings a session to the confirmar_articulo screen selects
\* a key whose CantidadSobrante is greater than 0, and a step that appends a
\* cart line appends it for a key whose CantidadSobrante is greater than 0.
C14_ConfirmNeedsStock ==
    [][\A s \in Sesiones :
          /\ (estado[s] # "confirmar_articulo" /\ estado'[s] = "confirmar_articulo")
             => Sobrante(maestro, <<producto_seleccionado'[s],
                                    talla_seleccionada'[s]>>) > 0
          /\ Len(carrito'[s]) = Len(carrito[s]) + 1
             => Sobrante(maestro, ClaveDe(carrito'[s][Len(carrito'[s])])) > 0]_vars

\* ---- C15 (code_bug) -----------------------------------------------------
\* C15: a step from the seleccionar_producto screen to the seleccionar_talla
\* screen selects a product with at least one size whose CantidadSobrante is
\* greater than 0.
C15_ProductNeedsStock ==
    [][\A s \in Sesiones :
          (estado[s] = "seleccionar_producto" /\ estado'[s] = "seleccionar_talla")
          => \E talla \in TallasDisponibles(maestro, producto_seleccionado'[s]) :
                Sobrante(maestro, <<producto_seleccionado'[s], talla>>) > 0]_vars

\* ---- C16 (confirmed) ----------------------------------------------------
\* C16: a step that changes the ledger or the sale files is a run of the
\* commit handler by a session on the checkout screen; every other step
\* leaves both unchanged.
C16_OnlyCommitWrites ==
    [][(maestro' # maestro \/ archivos' # archivos)
          => \E s \in Sesiones : EnCheckout(s) /\ CommitEjecutado(s)]_vars

\* After a commit wrote a sale file, the operator is on the cart screen with
\* a new cart.
C16_Witness ==
    /\ DOMAIN archivos # {}
    /\ \E s \in Sesiones : EnVentas(s, "carrito") /\ carrito[s] # <<>>

\* CantidadInicial - CantidadVendida of key k, whatever the row stores as
\* CantidadSobrante.
Recalculado(df, k) == df[k].CantidadInicial - df[k].CantidadVendida

\* ---- C17 (code_bug) -----------------------------------------------------
\* C17: the stock limit applied by the size selection and by the cart add is
\* CantidadInicial - CantidadVendida of the row, not its stored
\* CantidadSobrante: a size is selected only if that difference is not 0,
\* and a line is appended only with a Cantidad up to that difference.
C17_LimitRecomputed ==
    [][\A s \in Sesiones :
          /\ (estado[s] = "seleccionar_talla" /\ estado'[s] = "confirmar_articulo")
             => Recalculado(maestro, <<producto_seleccionado'[s],
                                       talla_seleccionada'[s]>>) # 0
          /\ Len(carrito'[s]) = Len(carrito[s]) + 1
             => LET linea == carrito'[s][Len(carrito'[s])]
                IN  linea.Cantidad <= Recalculado(maestro, ClaveDe(linea))]_vars

\* The screens on which a purchase is being put together.
PantallasDeSeleccion ==
    {"seleccionar_producto", "seleccionar_talla", "confirmar_articulo"}

\* Some button of the screen session s is on brings it to the cart screen
\* and leaves the cart as it is.
RegresoAlCarritoHabilitado(s) ==
    ENABLED (Paso(s) /\ estado'[s] = "carrito" /\ carrito' = carrito)

\* ---- C18 (code_bug) -----------------------------------------------------
\* C18: on every sales screen, a session whose cart is non-empty has a
\* transition that brings it directly back to the cart screen.
C18_ReturnToCart ==
    \A s \in Sesiones :
        (/\ ~mostrar_dashboard[s]
         /\ estado[s] \in PantallasDeSeleccion
         /\ carrito[s] # <<>>)
        => RegresoAlCarritoHabilitado(s)

\* ---- C19 (code_bug) -----------------------------------------------------
\* C19: every step keeps every ledger row, keeps its CantidadInicial and its
\* Costo, and does not lower its CantidadVendida.
C19_LedgerMonotone ==
    [][\A k \in DOMAIN maestro :
          /\ k \in DOMAIN maestro'
          /\ maestro'[k].CantidadInicial = maestro[k].CantidadInicial
          /\ maestro'[k].Costo = maestro[k].Costo
          /\ maestro'[k].CantidadVendida >= maestro[k].CantidadVendida]_vars

RECURSIVE SumaDeLineas(_)
\* Sum of Cantidad * Costo over the lines of a cart.
SumaDeLineas(compras) ==
    IF compras = <<>> THEN 0
    ELSE SumaDeLineas(SubSeq(compras, 1, Len(compras) - 1))
         + compras[Len(compras)].Cantidad * compras[Len(compras)].Costo

\* Every line of the cart is well formed over the ledger.
LineasBienFormadas(df, compras) ==
    \A i \in 1..Len(compras) :
        /\ compras[i].Cantidad >= 1
        /\ compras[i].CantidadVendida = compras[i].Cantidad
        /\ ClaveDe(compras[i]) \in DOMAIN df
        /\ compras[i].Costo = df[ClaveDe(compras[i])].Costo
        /\ compras[i].Ganancia = compras[i].Cantidad * compras[i].Costo

\* antes became despues by removing the line at one index, the other lines
\* keeping their order.
LineaEliminada(antes, despues) ==
    /\ Len(despues) = Len(antes) - 1
    /\ \E i \in 1..Len(antes) :
          /\ \A j \in 1..(i - 1) : despues[j] = antes[j]
          /\ \A j \in i..Len(despues) : despues[j] = antes[j + 1]

\* antes became despues by one more line at the end.
LineaAgregada(antes, despues) ==
    /\ Len(despues) = Len(antes) + 1
    /\ SubSeq(despues, 1, Len(antes)) = antes

C21_CommitFrame ==
    [][\A s \in Sesiones :
          CompraExitosa(s) =>
              \A k \in DOMAIN maestro \ ClavesDe(carrito[s]) :
                  k \in DOMAIN maestro' /\ maestro'[k] = maestro[k]]_vars

\* The sessions that show the success message of a commit.
SesionesConExito == {s \in Sesiones : mensaje[s] = "exito"}

\* No commit is under way, no session shows a commit error, and there are as
\* many sale files as sessions showing success: every sale file was written
\* by a commit that reported success.
SoloComprasExitosas ==
    /\ \A s \in Sesiones :
          en_curso[s] = SinCommit /\ mensaje[s] \in {"ninguno", "exito"}
    /\ Cardinality(DOMAIN archivos) = Cardinality(SesionesConExito)

\* ---- C22 (code_bug) -----------------------------------------------------
\* C22: in a state reached by commits that all reported success, for every
\* key the ledger's CantidadVendida minus the provisioned CantidadVendida is
\* the sum of CantidadVendida over the rows of that key in all sale files.
C22_Reconcile ==
    SoloComprasExitosas =>
        \A k \in DOMAIN maestro :
            maestro[k].CantidadVendida - MaestroLleno[k].CantidadVendida
                = VendidoEn(archivos, DOMAIN archivos, k)

\* The step is a press of a sidebar button by session s: it switches the
\* dashboard on or off, or brings a sales screen back to inicio without the
\* success message of a commit.
NavegacionLateral(s) ==
    \/ mostrar_dashboard'[s] # mostrar_dashboard[s]
    \/ /\ estado[s] # "inicio"
       /\ estado'[s] = "inicio"
       /\ mensaje'[s] # "exito"

\* From where session s is, the next button on the way inicio ->
\* seleccionar_producto -> carrito -> finalizar_compra -> commit can be
\* pressed (the commit while the sale files of the day are below the bound).
CaminoAlCommit(s) ==
    /\ mostrar_dashboard[s] => ENABLED SistemaDeVentas(s)
    /\ EnVentas(s, "inicio") => ENABLED GenerarNuevaCompra(s)
    /\ EnVentas(s, "seleccionar_producto") => ENABLED VerCarrito(s)
    /\ EnVentas(s, "carrito") => ENABLED FinalizarCompra(s)
    /\ (EnVentas(s, "finalizar_compra")
           /\ Cardinality(DOMAIN archivos) < MaxArchivos)
       => ENABLED ConfirmarExito(s)

\* ---- C23 (confirmed) ----------------------------------------------------
\* C23: a press of a sidebar button leaves every cart, the ledger and the
\* sale files as they were; and a session that holds a non-empty cart on the
\* dashboard or on the inicio screen (or further on the way) can press the
\* next button towards the cart screen, the checkout screen and the commit.
C23_SidebarKeepsCart ==
    /\ [][(\E s \in Sesiones : NavegacionLateral(s))
             => (carrito' = carrito /\ maestro' = maestro
                 /\ archivos' = archivos)]_vars
    /\ [](\A s \in Operadores : carrito[s] # <<>> => CaminoAlCommit(s))

\* The session is back on the inicio screen with lines in its cart: only the
\* sidebar button "Sistema de Ventas" brings it there.
C23_Witness ==
    \E s \in Sesiones : EnVentas(s, "inicio") /\ carrito[s] # <<>>

\* ---- C24 (confirmed) ----------------------------------------------------
\* C24: the screen of every session is one of the six screens; on the
\* seleccionar_talla screen the selected product is a product of the
\* ledger; on the confirmar_articulo screen the selected (product, size) is
\* a key of the ledger, so the lookup of articulo_info finds a row.
C24_ScreensWellFormed ==
    \A s \in Sesiones :
        /\ estado[s] \in {"inicio", "seleccionar_producto", "seleccionar_talla",
                          "confirmar_articulo", "carrito", "finalizar_compra"}
        /\ estado[s] = "seleccionar_talla"
           => \E k \in DOMAIN maestro : k[1] = producto_seleccionado[s]
        /\ estado[s] = "confirmar_articulo"
           => <<producto_seleccionado[s], talla_seleccionada[s]>> \in DOMAIN maestro

\* The confirmation screen is open for the only row of a one-row ledger, with
\* a line already in the cart.
C24_Witness ==
    \E s \in Sesiones :
        /\ EnVentas(s, "confirmar_articulo")
        /\ DOMAIN maestro = {ClaveSeleccionada(s)}
        /\ carrito[s] # <<>>
====
